---- MODULE Spec2Model ----
(***************************************************************************)
(* Model of the Akbo domain kernel (akbo.shared.domain): the immutable     *)
(* Entity base class with its version counter, timestamps, archival mark   *)
(* and event queue, the ValueObject construction pipeline, and             *)
(* BaseDomainEvent with its type tag, payload and outbox record.           *)
(*                                                                         *)
(* Every Python object that exists is one slot of `heap`; a handle is its  *)
(* index (object identity).  An operation reads its receiver from the      *)
(* heap, and, when it succeeds, allocates the instance it returns.  `last` *)
(* records the most recent call: its arguments and what it returned or     *)
(* raised.                                                                 *)
(***************************************************************************)
EXTENDS Integers, Sequences, FiniteSets, TLC

\* ---------------------------------------------------------------- bounds
MaxInstances == 3
MaxTime == 2
MaxLen == 3
MaxValueObjects == 2

\* MAX_NAME_LENGTH of the Name value object (100 in the source), scaled to
\* the lengths of the model's strings so that a name can be too long
MAX_NAME_LENGTH == 2

\* ------------------------------------------------------------ timestamps
\* A datetime: an instant `t` and whether tzinfo is set.  None is Python's None.
None == [tag |-> "None", t |-> 0, aware |-> FALSE]

Aware(n) == [tag |-> "dt", t |-> n, aware |-> TRUE]

Naive(n) == [tag |-> "dt", t |-> n, aware |-> FALSE]

AwareTimestamps == {Aware(n) : n \in 0..MaxTime}

Timestamps == AwareTimestamps \cup {Naive(0)}

\* datetime.__lt__ on two aware datetimes compares the instants
Lt(a, b) == a.t < b.t

\* --------------------------------------------------------------- events
\* An object handed to add_event: the attributes it has, and their values.
EventIds == {1}

EventStub(i, ts) == [attrs |-> {"id", "occurred_at"}, id |-> i, occurred_at |-> ts]

NotAnEvent == [attrs |-> {"id"}, id |-> 1, occurred_at |-> None]

\* an object with a zone-aware occurred_at and no id
NoIdEvent == [attrs |-> {"occurred_at"}, id |-> 0, occurred_at |-> Aware(0)]

NoEvent == [attrs |-> {}, id |-> 0, occurred_at |-> None]

\* an isinstance() that every object passes
DomainEventAnyObject(ev) == TRUE

\* isinstance(event, DomainEvent) for the runtime_checkable protocol:
\* the object has every member the protocol declares.
DomainEvent(ev) == {"id", "occurred_at"} \subseteq ev.attrs

\* -------------------------------------------------------------- results
NoEntity == [kind |-> "", id |-> 0, version |-> 0, created_at |-> None,
             updated_at |-> None, archived_at |-> None, events |-> <<>>, name |-> ""]

Returned(e) == [outcome |-> "ok", field |-> "", val |-> e]

Raised(exc, fld) == [outcome |-> exc, field |-> fld, val |-> NoEntity]

TimestampMustBeTimezoneAwareError(fld) == Raised("TimezoneMissing", fld)

TimestampOrderError(earlier, later) == Raised("TimestampOrder", later)

TypeError == Raised("TypeError", "")

\* --------------------------------------------------------------- entity
\* __post_init__ without the alignment of updated_at
PostInitNoAlign(e) ==
    IF ~e.created_at.aware \/ ~e.updated_at.aware
    THEN TimestampMustBeTimezoneAwareError("created_at, updated_at")
    ELSE IF e.archived_at # None /\ ~e.archived_at.aware
    THEN TimestampMustBeTimezoneAwareError("archived_at")
    ELSE Returned(e)

\* __post_init__ without the zone check of archived_at
PostInitNoArchivedCheck(e) ==
    IF ~e.created_at.aware \/ ~e.updated_at.aware
    THEN TimestampMustBeTimezoneAwareError("created_at, updated_at")
    ELSE Returned(IF Lt(e.updated_at, e.created_at)
                  THEN [e EXCEPT !.updated_at = e.created_at]
                  ELSE e)

\* __post_init__ that raises, as its docstring says, when updated_at is
\* earlier than created_at
PostInitRaisesOrder(e) ==
    IF ~e.created_at.aware \/ ~e.updated_at.aware
    THEN TimestampMustBeTimezoneAwareError("created_at, updated_at")
    ELSE IF Lt(e.updated_at, e.created_at)
    THEN TimestampOrderError("created_at", "updated_at")
    ELSE IF e.archived_at # None /\ ~e.archived_at.aware
    THEN TimestampMustBeTimezoneAwareError("archived_at")
    ELSE Returned(e)

\* __post_init__ without the zone check of created_at and updated_at
PostInitNoZoneCheck(e) ==
    LET e1 == IF Lt(e.updated_at, e.created_at)
              THEN [e EXCEPT !.updated_at = e.created_at]
              ELSE e
    IN  IF e1.archived_at # None /\ ~e1.archived_at.aware
        THEN TimestampMustBeTimezoneAwareError("archived_at")
        ELSE Returned(e1)

\* Entity.__post_init__, run by the constructor and so by every replace()
PostInit(e) ==
    IF ~e.created_at.aware \/ ~e.updated_at.aware
    THEN TimestampMustBeTimezoneAwareError("created_at, updated_at")
    ELSE LET e1 == IF Lt(e.updated_at, e.created_at)
                   THEN [e EXCEPT !.updated_at = e.created_at]
                   ELSE e
         IN  IF e1.archived_at # None /\ ~e1.archived_at.aware
             THEN TimestampMustBeTimezoneAwareError("archived_at")
             ELSE Returned(e1)

\* __eq__ that compares the identifiers alone
EqByIdAlone(a, b) == a.id = b.id

\* Entity.__eq__: the same concrete type and the same id
Eq(a, b) == b.kind = a.kind /\ a.id = b.id

\* Entity.__hash__: the tuple that is hashed
HashKey(a) == <<a.kind, a.id>>

\* Keyword arguments / field replacements: `keys` are the names given, the
\* other components their values (those of absent names are not read).
NoChange == [keys |-> {}, id |-> 0, version |-> 0, created_at |-> None,
             updated_at |-> None, archived_at |-> None, events |-> <<>>, name |-> ""]

Has(ch, f) == f \in ch.keys

\* replace() that lets the identifier's default_factory run again
ReplaceFreshId(e, ch) ==
    PostInit([kind        |-> e.kind,
              id          |-> IF Has(ch, "id") THEN ch.id ELSE 0,
              version     |-> IF Has(ch, "version") THEN ch.version ELSE e.version,
              created_at  |-> IF Has(ch, "created_at") THEN ch.created_at ELSE e.created_at,
              updated_at  |-> IF Has(ch, "updated_at") THEN ch.updated_at ELSE e.updated_at,
              archived_at |-> IF Has(ch, "archived_at") THEN ch.archived_at ELSE e.archived_at,
              events      |-> IF Has(ch, "events") THEN ch.events ELSE e.events,
              name        |-> IF Has(ch, "name") THEN ch.name ELSE e.name])

\* dataclasses.replace(e, **ch): the constructor is called with the fields of
\* e, those named in ch replaced, and __post_init__ runs on the new object.
Replace(e, ch) ==
    PostInit([kind        |-> e.kind,
              id          |-> IF Has(ch, "id") THEN ch.id ELSE e.id,
              version     |-> IF Has(ch, "version") THEN ch.version ELSE e.version,
              created_at  |-> IF Has(ch, "created_at") THEN ch.created_at ELSE e.created_at,
              updated_at  |-> IF Has(ch, "updated_at") THEN ch.updated_at ELSE e.updated_at,
              archived_at |-> IF Has(ch, "archived_at") THEN ch.archived_at ELSE e.archived_at,
              events      |-> IF Has(ch, "events") THEN ch.events ELSE e.events,
              name        |-> IF Has(ch, "name") THEN ch.name ELSE e.name])

\* cls(id=..., version=..., created_at=..., updated_at=..., archived_at=..., name=...)
Construct(cls, i, v, c, u, a, q, n) ==
    PostInit([kind |-> cls, id |-> i, version |-> v, created_at |-> c,
              updated_at |-> u, archived_at |-> a, events |-> q, name |-> n])

\* create() that counts the creation as a first version
CreateVersionOne(cls, now, i, n) ==
    IF ~now.aware
    THEN TimestampMustBeTimezoneAwareError("now")
    ELSE Construct(cls, i, 1, now, now, None, <<>>, n)

\* Entity.create(now, name=n); i is the identifier uuid4() draws
Create(cls, now, i, n) ==
    IF ~now.aware
    THEN TimestampMustBeTimezoneAwareError("now")
    ELSE Construct(cls, i, 0, now, now, None, <<>>, n)

\* update() that rejects now = updated_at as well (<= for <)
UpdateStrict(e, now, kw) ==
    IF ~now.aware
    THEN TimestampMustBeTimezoneAwareError("now")
    ELSE IF ~Lt(e.updated_at, now)
    THEN TimestampOrderError("updated_at", "now")
    ELSE IF kw.keys \cap {"updated_at", "version"} # {}
    THEN TypeError
    ELSE Replace(e, [kw EXCEPT !.keys = @ \cup {"updated_at", "version"},
                               !.updated_at = now,
                               !.version = e.version + 1])

\* update() without the ordering check
UpdateNoOrder(e, now, kw) ==
    IF ~now.aware
    THEN TimestampMustBeTimezoneAwareError("now")
    ELSE IF kw.keys \cap {"updated_at", "version"} # {}
    THEN TypeError
    ELSE Replace(e, [kw EXCEPT !.keys = @ \cup {"updated_at", "version"},
                               !.updated_at = now,
                               !.version = e.version + 1])

\* update() that counts its change as two versions
UpdateBumpsTwice(e, now, kw) ==
    IF ~now.aware
    THEN TimestampMustBeTimezoneAwareError("now")
    ELSE IF Lt(now, e.updated_at)
    THEN TimestampOrderError("updated_at", "now")
    ELSE IF kw.keys \cap {"updated_at", "version"} # {}
    THEN TypeError
    ELSE Replace(e, [kw EXCEPT !.keys = @ \cup {"updated_at", "version"},
                               !.updated_at = now,
                               !.version = e.version + 2])

\* update() that brings an archived entity back
UpdateUnarchives(e, now, kw) ==
    IF ~now.aware
    THEN TimestampMustBeTimezoneAwareError("now")
    ELSE IF Lt(now, e.updated_at)
    THEN TimestampOrderError("updated_at", "now")
    ELSE IF kw.keys \cap {"updated_at", "version"} # {}
    THEN TypeError
    ELSE Replace(e, [kw EXCEPT !.keys = @ \cup {"updated_at", "version", "archived_at"},
                               !.updated_at = now,
                               !.version = e.version + 1,
                               !.archived_at = None])

\* Entity.update(now, **kw)
Update(e, now, kw) ==
    IF ~now.aware
    THEN TimestampMustBeTimezoneAwareError("now")
    ELSE IF Lt(now, e.updated_at)
    THEN TimestampOrderError("updated_at", "now")
    ELSE IF kw.keys \cap {"updated_at", "version"} # {}
    THEN TypeError
    ELSE Replace(e, [kw EXCEPT !.keys = @ \cup {"updated_at", "version"},
                               !.updated_at = now,
                               !.version = e.version + 1])

\* archive() without the ordering check
ArchiveNoOrder(e, now) ==
    IF ~now.aware
    THEN TimestampMustBeTimezoneAwareError("now")
    ELSE Replace(e, [NoChange EXCEPT !.keys = {"updated_at", "version", "archived_at"},
                                     !.updated_at = now,
                                     !.version = e.version + 1,
                                     !.archived_at = now])

\* archive() that leaves updated_at as it is
ArchiveKeepsUpdated(e, now) ==
    IF ~now.aware
    THEN TimestampMustBeTimezoneAwareError("now")
    ELSE IF Lt(now, e.updated_at)
    THEN TimestampOrderError("updated_at", "now")
    ELSE Replace(e, [NoChange EXCEPT !.keys = {"version", "archived_at"},
                                     !.version = e.version + 1,
                                     !.archived_at = now])

\* archive() that compares now with updated_at before it checks the zone
ArchiveOrderFirst(e, now) ==
    IF Lt(now, e.updated_at)
    THEN TimestampOrderError("updated_at", "now")
    ELSE IF ~now.aware
    THEN TimestampMustBeTimezoneAwareError("now")
    ELSE Replace(e, [NoChange EXCEPT !.keys = {"updated_at", "version", "archived_at"},
                                     !.updated_at = now,
                                     !.version = e.version + 1,
                                     !.archived_at = now])

\* archive() that keeps the archived_at of an entity archived already
ArchiveKeepsFirstMark(e, now) ==
    IF ~now.aware
    THEN TimestampMustBeTimezoneAwareError("now")
    ELSE IF Lt(now, e.updated_at)
    THEN TimestampOrderError("updated_at", "now")
    ELSE Replace(e, [NoChange EXCEPT !.keys = {"updated_at", "version", "archived_at"},
                                     !.updated_at = now,
                                     !.version = e.version + 1,
                                     !.archived_at = IF e.archived_at = None
                                                     THEN now ELSE e.archived_at])

\* Entity.archive(now)
Archive(e, now) ==
    IF ~now.aware
    THEN TimestampMustBeTimezoneAwareError("now")
    ELSE IF Lt(now, e.updated_at)
    THEN TimestampOrderError("updated_at", "now")
    ELSE Replace(e, [NoChange EXCEPT !.keys = {"updated_at", "version", "archived_at"},
                                     !.updated_at = now,
                                     !.version = e.version + 1,
                                     !.archived_at = now])

\* unarchive() that leaves the version as it is
UnarchiveNoBump(e, now) ==
    IF ~now.aware
    THEN TimestampMustBeTimezoneAwareError("now")
    ELSE Replace(e, [NoChange EXCEPT !.keys = {"updated_at", "archived_at"},
                                     !.updated_at = now,
                                     !.archived_at = None])

\* unarchive() that leaves archived_at as it is
UnarchiveKeepsArchived(e, now) ==
    IF ~now.aware
    THEN TimestampMustBeTimezoneAwareError("now")
    ELSE Replace(e, [NoChange EXCEPT !.keys = {"updated_at", "version"},
                                     !.updated_at = now,
                                     !.version = e.version + 1])

\* Entity.unarchive(now)
Unarchive(e, now) ==
    IF ~now.aware
    THEN TimestampMustBeTimezoneAwareError("now")
    ELSE Replace(e, [NoChange EXCEPT !.keys = {"updated_at", "archived_at", "version"},
                                     !.updated_at = now,
                                     !.archived_at = None,
                                     !.version = e.version + 1])

\* add_event() that leaves updated_at as it is
AddEventKeepsTime(e, ev) ==
    IF ~DomainEvent(ev) \/ ~ev.occurred_at.aware
    THEN TimestampMustBeTimezoneAwareError("event.occurred_at")
    ELSE Replace(e, [NoChange EXCEPT !.keys = {"events", "version"},
                                     !.events = Append(e.events, ev),
                                     !.version = e.version + 1])

\* add_event() that puts the event at the head of the queue
AddEventPrepends(e, ev) ==
    IF ~DomainEvent(ev) \/ ~ev.occurred_at.aware
    THEN TimestampMustBeTimezoneAwareError("event.occurred_at")
    ELSE Replace(e, [NoChange EXCEPT !.keys = {"events", "updated_at", "version"},
                                     !.events = <<ev>> \o e.events,
                                     !.updated_at = ev.occurred_at,
                                     !.version = e.version + 1])

\* Entity.add_event(event)
AddEvent(e, ev) ==
    IF ~DomainEvent(ev) \/ ~ev.occurred_at.aware
    THEN TimestampMustBeTimezoneAwareError("event.occurred_at")
    ELSE Replace(e, [NoChange EXCEPT !.keys = {"events", "updated_at", "version"},
                                     !.events = Append(e.events, ev),
                                     !.updated_at = ev.occurred_at,
                                     !.version = e.version + 1])

\* drain_events() that returns the receiver's fields as they are
DrainEventsKeepsQueue(e) == Replace(e, NoChange)

\* drain_events() that counts as a mutation
DrainEventsBumps(e) ==
    Replace(e, [NoChange EXCEPT !.keys = {"events", "version"},
                                !.events = <<>>,
                                !.version = e.version + 1])

\* Entity.drain_events(): the second component of the pair it returns
DrainEvents(e) == Replace(e, [NoChange EXCEPT !.keys = {"events"}, !.events = <<>>])

\* Entity.peek_events(), and the first component of drain_events()'s pair
PeekEvents(e) == e.events

\* BaseDomainEvent.__post_init__ on an event built with occurred_at = ts
BaseDomainEventPostInit(ts) ==
    IF ~ts.aware
    THEN "TimezoneMissing"
    ELSE "ok"

\* ------------------------------------------------------------ the inputs
Kinds == {"Foo"}

\* keyword arguments a caller passes to update()
Kw(f, ch) == [ch EXCEPT !.keys = {f}]

UpdateKwargs ==
    {Kw("name", [NoChange EXCEPT !.name = "baz"]),
     Kw("id", [NoChange EXCEPT !.id = 9]),
     Kw("created_at", [NoChange EXCEPT !.created_at = Aware(MaxTime)]),
     Kw("version", [NoChange EXCEPT !.version = 0])}

SubclassFields == {"name"}

\* <<created_at, updated_at, archived_at>> given to the constructor: every
\* order of two aware timestamps, and each of the three zone-less in turn
ConstructTimes == {Aware(0), Aware(1)}

ConstructArgs ==
    {<<c, u, None>> : c \in ConstructTimes, u \in ConstructTimes}
    \cup {<<Naive(0), u, None>> : u \in ConstructTimes}
    \cup {<<c, Naive(0), None>> : c \in ConstructTimes}
    \cup {<<c, c, Naive(0)>> : c \in ConstructTimes}

\* queues given to the constructor as _events: the constructor stores the
\* tuple as it is, here one holding an event whose occurred_at has no zone
QueueArgs == {<<EventStub(1, Naive(0))>>}

EventArgs ==
    {EventStub(i, ts) : i \in EventIds, ts \in Timestamps} \cup {NotAnEvent, NoIdEvent}

\* --------------------------------------------------------- value objects
\* A str is the sequence of its characters.
Chars == {" ", "a", "A"}

Strs == UNION {[1..k -> Chars] : k \in 0..MaxLen}

\* the texts given to Slug: the shorter strings
SlugTexts == {s \in Strs : Len(s) < MaxLen}

\* str.strip(): the string without its leading and trailing whitespace
RECURSIVE LStrip(_)
LStrip(s) == IF s # <<>> /\ Head(s) = " " THEN LStrip(Tail(s)) ELSE s

RECURSIVE RStrip(_)
RStrip(s) ==
    IF s # <<>> /\ s[Len(s)] = " " THEN RStrip(SubSeq(s, 1, Len(s) - 1)) ELSE s

Strip(s) == LStrip(RStrip(s))

\* str.lower()
Lower(s) == [k \in DOMAIN s |-> IF s[k] = "A" THEN "a" ELSE s[k]]

\* A value object: its class and its fields (those of other classes unused).
NoValue == [cls |-> "", value |-> <<>>, text |-> <<>>, start |-> None, end |-> None]

\* what _normalize() returns: the fields to replace (keys empty: None)
NoUpdates == [keys |-> {}, value |-> <<>>, text |-> <<>>]

\* what _validate() does: returns, or raises `exc` with a message or field
Valid == [outcome |-> "ok", msg |-> ""]

Invalid(exc, msg) == [outcome |-> exc, msg |-> msg]

\* SingleValueObject._normalize_value, overridden by Name
NormalizeValue(o, v) == IF o.cls = "Name" THEN Strip(v) ELSE v

\* SingleValueObject._validate_value, overridden by Name
ValidateValue(o, v) ==
    IF o.cls # "Name" THEN Valid
    ELSE IF v = <<>> THEN Invalid("ValueError", "Name empty.")
    ELSE IF Len(v) > MAX_NAME_LENGTH THEN Invalid("ValueError", "Name too long.")
    ELSE Valid

\* _normalize() that reports no field to replace
NormalizeNothing(o) == NoUpdates

\* _normalize(): SingleValueObject's for Name, Slug's own, ValueObject's
\* (None) for Period
Normalize(o) ==
    CASE o.cls = "Name" ->
            LET v2 == NormalizeValue(o, o.value)
            IN  IF v2 # o.value THEN [NoUpdates EXCEPT !.keys = {"value"}, !.value = v2]
                ELSE NoUpdates
      [] o.cls = "Slug" ->
            LET x == Lower(Strip(o.text))
            IN  IF x # o.text THEN [NoUpdates EXCEPT !.keys = {"text"}, !.text = x]
                ELSE NoUpdates
      [] OTHER -> NoUpdates

\* _validate(): SingleValueObject's for Name, Period's own, ValueObject's
\* (nothing) for Slug
Validate(o) ==
    CASE o.cls = "Name" -> ValidateValue(o, o.value)
      [] o.cls = "Period" ->
            IF ~o.start.aware \/ ~o.end.aware THEN Invalid("TimezoneMissing", "start/end")
            ELSE IF Lt(o.end, o.start) THEN Invalid("ValueError", "End before start.")
            ELSE Valid
      [] OTHER -> Valid

\* SingleValueObject.as_primitive()
AsPrimitive(o) == o.value

\* the __eq__ the dataclass decorator generates: the same class and the same
\* field values
ValueEq(a, b) ==
    /\ a.cls = b.cls
    /\ <<a.value, a.text, a.start, a.end>> = <<b.value, b.text, b.start, b.end>>

\* object.__setattr__(self, k, v) for every k, v of the updates
SetAttrs(o, updates) ==
    [o EXCEPT !.value = IF "value" \in updates.keys THEN updates.value ELSE @,
              !.text = IF "text" \in updates.keys THEN updates.text ELSE @]

\* The outcome of a construction: `seen` is the object as _validate() read it,
\* `val` the instance (when the constructor returned).
Built(r, seen, o) ==
    [outcome |-> r.outcome, msg |-> r.msg, seen |-> seen,
     val |-> IF r.outcome = "ok" THEN o ELSE NoValue]

\* __post_init__ that validates the fields as given and normalizes afterwards
PostInitValidateFirst(o) ==
    LET updates == Normalize(o)
    IN  Built(Validate(o), o, IF updates.keys # {} THEN SetAttrs(o, updates) ELSE o)

\* ValueObject.__post_init__ on the object o the constructor has filled in
ValueObjectPostInit(o) ==
    LET updates == Normalize(o)
        o1 == IF updates.keys # {} THEN SetAttrs(o, updates) ELSE o
    IN  Built(Validate(o1), o1, o1)

\* ----------------------------------------------------------- base events
\* Python values held by the fields of an event.
PyNone == [ty |-> "NoneType", n |-> 0, s |-> "", aware |-> FALSE]

PyInt(n) == [ty |-> "int", n |-> n, s |-> "", aware |-> FALSE]

PyStr(s) == [ty |-> "str", n |-> 0, s |-> s, aware |-> FALSE]

PyUuid(n) == [ty |-> "UUID", n |-> n, s |-> "", aware |-> FALSE]

PyDatetime(ts) == [ty |-> "datetime", n |-> ts.t, s |-> "", aware |-> ts.aware]

\* bool(v) for None and for a str
Truthy(v) == v.ty = "str" /\ v.s # ""

\* str(uuid): the text of the identifier
Str(u) == PyStr("uuid-" \o ToString(u.n))

\* datetime.isoformat() of an aware datetime: the instant and its offset
IsoFormat(d) == PyStr(ToString(d.n) \o (IF d.aware THEN "+00:00" ELSE ""))

\* An event class: its name and module, whether it declares TYPE, the tag,
\* whether the declaration is a dataclass field (TYPE: str = "...", as the
\* tests write it) or a class constant, and the fields it adds.
BaseDomainEventClass ==
    [name |-> "BaseDomainEvent", module |-> "akbo.shared.domain.domain_event",
     declares |-> FALSE, TYPE |-> "", asField |-> FALSE, own |-> {}]

\* the tags a subclass declares
TagValues == {"score.created", ""}

EventClasses ==
    {BaseDomainEventClass}
    \cup {[name |-> "MyEvtNoType", module |-> "test_domain_event",
           declares |-> FALSE, TYPE |-> "", asField |-> FALSE, own |-> {"thing"}]}
    \cup {[name |-> "MyEvt", module |-> "test_domain_event",
           declares |-> TRUE, TYPE |-> tag, asField |-> fld, own |-> {"score_id"}]
             : tag \in TagValues, fld \in BOOLEAN}

\* dataclasses.fields(cls): the names of the fields of an instance
Fields(cls) ==
    {"id", "occurred_at", "aggregate_id", "aggregate_type", "version"}
    \cup (IF cls.declares /\ cls.asField THEN {"TYPE"} ELSE {})
    \cup cls.own

NoBaseEvent == [cls |-> BaseDomainEventClass, f |-> <<>>]

\* cls(id=i, occurred_at=ts, aggregate_type=at, version=v) once __post_init__
\* has returned: the other fields have their defaults
NewEvent(cls, i, ts, at, v) ==
    [cls |-> cls,
     f |-> [k \in Fields(cls) |->
              CASE k = "id" -> PyUuid(i)
                [] k = "occurred_at" -> PyDatetime(ts)
                [] k = "aggregate_id" -> PyNone
                [] k = "aggregate_type" -> at
                [] k = "version" -> v
                [] k = "TYPE" -> PyStr(cls.TYPE)
                [] k = "score_id" -> PyUuid(7)
                [] OTHER -> PyStr("x")]]

\* self.TYPE: the field, the constant the class declares, or the None of
\* BaseDomainEvent
TypeAttr(e) ==
    IF ~e.cls.declares THEN PyNone
    ELSE IF e.cls.asField THEN e.f["TYPE"]
    ELSE PyStr(e.cls.TYPE)

\* type(self).__module__ + "." + type(self).__name__
FQN(e) == e.cls.module \o "." \o e.cls.name

\* BaseDomainEvent.event_type
EventType(e) == IF Truthy(TypeAttr(e)) THEN TypeAttr(e).s ELSE FQN(e)

\* payload() that removes occurred_at alone
PayloadKeepsId(e) == [k \in DOMAIN e.f \ {"occurred_at"} |-> e.f[k]]

\* BaseDomainEvent.payload(): asdict(self) without id and occurred_at
Payload(e) == [k \in DOMAIN e.f \ {"id", "occurred_at"} |-> e.f[k]]

\* BaseDomainEvent.to_outbox_record()
ToOutboxRecord(e) ==
    [id |-> Str(e.f["id"]),
     type |-> EventType(e),
     occurred_at |-> IsoFormat(e.f["occurred_at"]),
     payload |-> Payload(e)]

\* ------------------------------------------------------------- the state
\* heap:   the entity instances that exist, by handle
\* origin: for each handle, the call that returned the instance: the method,
\*         its receiver, the names of the keyword arguments given, the event
\*         given (add_event) and the batch returned with it (drain_events)
\* last:   the most recent call: its arguments, its receiver (`self`) and the
\*         heap (`before`) as they were when it was made, and its outcome
VARIABLES heap, origin, last

\* values: the value-object instances that exist, by handle
\* built:  the most recent value-object construction: the object as the
\*         caller filled it in (`arg`), `values` as it was (`before`), and the
\*         outcome
VARIABLES values, built

\* events: the base events that exist, by handle
\* asked:  the most recent call on an event class or instance: the method,
\*         the receiver as it was (`self`), `events` as they were (`before`),
\*         and what the call returned
VARIABLES events, asked

vars == <<heap, origin, last, values, built, events, asked>>

NoAsk == [op |-> "none", self |-> NoBaseEvent, before |-> <<>>, outcome |-> "ok",
          type |-> "", payload |-> <<>>, record |-> <<>>]

NoBuild == [arg |-> NoValue, before |-> <<>>, outcome |-> "none", msg |-> "",
            seen |-> NoValue, res |-> 0]

Handles == DOMAIN heap

NoCall == [op |-> "none", recv |-> 0, self |-> NoEntity, before |-> <<>>,
           now |-> None, kw |-> NoChange, ev |-> NoEvent,
           outcome |-> "ok", field |-> "", res |-> 0, batch |-> <<>>]

\* uuid4(): an identifier no earlier call has drawn
uuid4 == Len(heap) + 1

\* a call that leaves the object it was building behind when it raises
AllocAlways(h, r) == Append(h, r.val)

\* The heap after a call that returned `r`: a new object when it returned one.
Alloc(h, r) == IF r.outcome = "ok" THEN Append(h, r.val) ELSE h

\* What a call on receiver `h` that evaluated to `r` leaves behind.
Call(op, h, now, kw, ev, r, batch) ==
    /\ heap' = Alloc(heap, r)
    /\ origin' = IF r.outcome = "ok"
                 THEN Append(origin, [op |-> op, recv |-> h, keys |-> kw.keys,
                                      ev |-> ev, batch |-> batch])
                 ELSE origin
    /\ last' = [op |-> op, recv |-> h,
                self |-> IF h = 0 THEN NoEntity ELSE heap[h],
                before |-> heap,
                now |-> now, kw |-> kw, ev |-> ev,
                outcome |-> r.outcome, field |-> r.field,
                res |-> IF r.outcome = "ok" THEN Len(heap) + 1 ELSE 0,
                batch |-> batch]
    /\ UNCHANGED <<values, built, events, asked>>

\* A call that returns no new instance (it raised, or it was peek_events or an
\* event construction) leaves the heap as the call before it left it, so every
\* call that can follow it could as well have been made in its place: the
\* calls are explored from the states an allocating call left.
CanCall ==
    /\ Len(heap) < MaxInstances
    /\ last.op = "none" \/ last.res # 0

Init ==
    /\ heap = <<>>
    /\ origin = <<>>
    /\ last = NoCall
    /\ values = <<>>
    /\ built = NoBuild
    /\ events = <<>>
    /\ asked = NoAsk

DoCreate ==
    /\ CanCall
    /\ \E cls \in Kinds, now \in Timestamps, n \in {"bar"} :
        /\ Call("create", 0, now, Kw("name", [NoChange EXCEPT !.name = n]), NoEvent,
                Create(cls, now, uuid4, n), <<>>)

DoConstruct ==
    /\ CanCall
    /\ \E cls \in Kinds, args \in ConstructArgs :
        /\ Call("construct", 0, None,
                [NoChange EXCEPT !.keys = {"created_at", "updated_at", "archived_at"},
                                 !.created_at = args[1],
                                 !.updated_at = args[2],
                                 !.archived_at = args[3]],
                NoEvent,
                Construct(cls, uuid4, 0, args[1], args[2], args[3], <<>>, "bar"),
                <<>>)

\* cls(created_at=t, updated_at=t, name=..., _events=q)
DoConstructWithEvents ==
    /\ CanCall
    /\ \E cls \in Kinds, q \in QueueArgs :
        /\ Call("construct", 0, None,
                [NoChange EXCEPT !.keys = {"created_at", "updated_at", "events"},
                                 !.created_at = Aware(0),
                                 !.updated_at = Aware(0),
                                 !.events = q],
                NoEvent,
                Construct(cls, uuid4, 0, Aware(0), Aware(0), None, q, "bar"),
                <<>>)

DoUpdate ==
    /\ CanCall
    /\ \E h \in Handles, now \in Timestamps, kw \in UpdateKwargs :
        /\ Call("update", h, now, kw, NoEvent, Update(heap[h], now, kw), <<>>)

DoArchive ==
    /\ CanCall
    /\ \E h \in Handles, now \in Timestamps :
        /\ Call("archive", h, now, NoChange, NoEvent, Archive(heap[h], now), <<>>)

DoUnarchive ==
    /\ CanCall
    /\ \E h \in Handles, now \in Timestamps :
        /\ Call("unarchive", h, now, NoChange, NoEvent, Unarchive(heap[h], now), <<>>)

DoAddEvent ==
    /\ CanCall
    /\ \E h \in Handles, ev \in EventArgs :
        /\ Call("add_event", h, None, NoChange, ev, AddEvent(heap[h], ev), <<>>)

DoDrainEvents ==
    /\ CanCall
    /\ \E h \in Handles :
        /\ Call("drain_events", h, None, NoChange, NoEvent,
                DrainEvents(heap[h]), PeekEvents(heap[h]))

DoPeekEvents ==
    /\ CanCall
    /\ \E h \in Handles :
        /\ UNCHANGED <<heap, origin, values, built, events, asked>>
        /\ last' = [NoCall EXCEPT !.op = "peek_events", !.recv = h,
                                  !.self = heap[h],
                                  !.before = heap,
                                  !.batch = PeekEvents(heap[h])]

\* BaseDomainEvent(id=i, occurred_at=ts): the event built is last.ev
DoBaseDomainEvent ==
    /\ CanCall
    /\ \E i \in EventIds, ts \in Timestamps :
        /\ UNCHANGED <<heap, origin, values, built, events, asked>>
        /\ last' = [NoCall EXCEPT !.op = "BaseDomainEvent", !.now = ts,
                                  !.before = heap,
                                  !.outcome = BaseDomainEventPostInit(ts),
                                  !.field = IF BaseDomainEventPostInit(ts) = "ok"
                                            THEN "" ELSE "occurred_at",
                                  !.ev = IF BaseDomainEventPostInit(ts) = "ok"
                                         THEN EventStub(i, ts) ELSE NoEvent]

\* Entity kinds and identifiers for creations that name the id, as
\* Foo.create(now=t0, id=same_id, name="A") and Bar.create(now=t0, id=same_id, ...)
EntityKinds == {"Foo", "Bar"}

CallerIds == {8, 9}

DoCreateWithId ==
    /\ CanCall
    /\ \E cls \in EntityKinds, i \in CallerIds :
        /\ Call("create", 0, Aware(0),
                [NoChange EXCEPT !.keys = {"id", "name"}, !.id = i, !.name = "bar"],
                NoEvent, Create(cls, Aware(0), i, "bar"), <<>>)

Next ==
    \/ DoCreate
    \/ DoConstruct
    \/ DoConstructWithEvents
    \/ DoUpdate
    \/ DoArchive
    \/ DoUnarchive
    \/ DoAddEvent
    \/ DoDrainEvents
    \/ DoPeekEvents
    \/ DoBaseDomainEvent

Spec == Init /\ [][Next]_vars

\* Entities of two kinds created with identifiers the caller names, and the
\* instances derived from them.
NextEq ==
    \/ DoCreateWithId
    \/ DoUpdate
    \/ DoArchive
    \/ DoUnarchive
    \/ DoAddEvent
    \/ DoDrainEvents

SpecEq == Init /\ [][NextEq]_vars

\* A construction that raised leaves `values` as the construction before it
\* left them: the constructions are explored from the states a construction
\* that returned has left.
CanBuild ==
    /\ Len(values) < MaxValueObjects
    /\ built.outcome \in {"none", "ok"}

\* A construction of the value object o: its instance is allocated when
\* __post_init__ returns.
Build(o) ==
    LET r == ValueObjectPostInit(o)
    IN  /\ CanBuild
        /\ values' = IF r.outcome = "ok" THEN Append(values, r.val) ELSE values
        /\ built' = [arg |-> o, before |-> values, outcome |-> r.outcome,
                     msg |-> r.msg, seen |-> r.seen,
                     res |-> IF r.outcome = "ok" THEN Len(values) + 1 ELSE 0]
        /\ UNCHANGED <<heap, origin, last, events, asked>>

\* Name(value=v)
DoName == \E v \in Strs : Build([NoValue EXCEPT !.cls = "Name", !.value = v])

\* Slug(text=x)
DoSlug == \E x \in SlugTexts : Build([NoValue EXCEPT !.cls = "Slug", !.text = x])

\* Period(start=a, end=b)
DoPeriod ==
    \E a \in Timestamps, b \in Timestamps :
        Build([NoValue EXCEPT !.cls = "Period", !.start = a, !.end = b])

NextVO ==
    \/ DoName
    \/ DoSlug
    \/ DoPeriod

SpecVO == Init /\ [][NextVO]_vars

\* cls(occurred_at=ts, aggregate_type=at, version=v): one event is built and
\* then asked for its type, its payload and its outbox record
DoNewEvent ==
    /\ events = <<>>
    /\ \E cls \in EventClasses, ts \in Timestamps,
          at \in {PyNone, PyStr("Score")}, v \in {PyNone, PyInt(1)} :
        /\ events' = IF BaseDomainEventPostInit(ts) = "ok"
                      THEN <<NewEvent(cls, 1, ts, at, v)>>
                      ELSE events
        /\ asked' = [NoAsk EXCEPT !.op = "BaseDomainEvent",
                                  !.before = events,
                                  !.outcome = BaseDomainEventPostInit(ts)]
    /\ UNCHANGED <<heap, origin, last, values, built>>

DoEventType ==
    /\ \E h \in DOMAIN events :
        asked' = [NoAsk EXCEPT !.op = "event_type", !.self = events[h],
                                !.before = events,
                                !.type = EventType(events[h])]
    /\ UNCHANGED <<heap, origin, last, values, built, events>>

DoPayload ==
    /\ \E h \in DOMAIN events :
        asked' = [NoAsk EXCEPT !.op = "payload", !.self = events[h],
                                !.before = events,
                                !.payload = Payload(events[h])]
    /\ UNCHANGED <<heap, origin, last, values, built, events>>

DoToOutboxRecord ==
    /\ \E h \in DOMAIN events :
        asked' = [NoAsk EXCEPT !.op = "to_outbox_record", !.self = events[h],
                                !.before = events,
                                !.record = ToOutboxRecord(events[h])]
    /\ UNCHANGED <<heap, origin, last, values, built, events>>

NextEvent ==
    \/ DoNewEvent
    \/ DoEventType
    \/ DoPayload
    \/ DoToOutboxRecord

SpecEvent == Init /\ [][NextEvent]_vars

\* The lifeline of entities that start at create: create and the operations
\* that derive an instance from another.
NextLife ==
    \/ DoCreate
    \/ DoUpdate
    \/ DoArchive
    \/ DoUnarchive
    \/ DoAddEvent
    \/ DoDrainEvents

SpecLife == Init /\ [][NextLife]_vars

\* ------------------------------------------------------------ vocabulary
Mutating == {"update", "archive", "unarchive", "add_event"}

\* the instance the last call returned, and its receiver as it is now
Res == heap[last.res]

Recv == heap[last.recv]

\* the last call returned a new entity instance
ReturnedInstance == last.outcome = "ok" /\ last.res # 0

\* the handle the instance h was derived from (0: built by create or directly)
Parent(h) == origin[h].recv

RECURSIVE Root(_)
Root(h) == IF Parent(h) = 0 THEN h ELSE Root(Parent(h))

\* the number of mutating operations on the chain from the root to h
RECURSIVE MutSteps(_)
MutSteps(h) ==
    IF Parent(h) = 0
    THEN 0
    ELSE MutSteps(Parent(h)) + (IF origin[h].op \in Mutating THEN 1 ELSE 0)

\* the timestamp the last call was given (now, or the event's occurred_at)
GivenTime == IF last.op = "add_event" THEN last.ev.occurred_at ELSE last.now

\* ---------------------------------------------------------------- claims

\* C1: every instance returned by update, archive, unarchive or add_event has
\* the version of its receiver plus one; drain_events returns the receiver's
\* version; so along a chain that starts at create the version is the number
\* of mutating operations applied: it never decreases and skips no value.
C1_VersionStepsByOne ==
    \A h \in Handles :
        /\ origin[h].op \in Mutating
              => heap[h].version = heap[Parent(h)].version + 1
        /\ origin[h].op = "drain_events"
              => heap[h].version = heap[Parent(h)].version
        /\ origin[Root(h)].op = "create"
              => heap[h].version = MutSteps(h)

C1_Witness ==
    \E h \in Handles :
        /\ origin[h].op = "unarchive"
        /\ Parent(h) # 0 /\ origin[Parent(h)].op = "add_event"
        /\ origin[Root(h)].op = "create"
        /\ heap[h].version = 2

\* C2: create(now = t0) with a zone-aware t0 succeeds, and the instance it
\* returns has created_at = updated_at = t0, version 0, no archived_at and an
\* empty event queue.
C2_CreateResult ==
    (last.op = "create" /\ last.now.aware) =>
        /\ ReturnedInstance
        /\ Res.created_at = last.now
        /\ Res.updated_at = last.now
        /\ Res.version = 0
        /\ Res.archived_at = None
        /\ Res.events = <<>>

C2_Witness ==
    /\ last.op = "create"
    /\ last.now = Aware(1)
    /\ ReturnedInstance
    /\ Res.created_at = Aware(1)

\* C3: drain_events() on an entity with N queued events returns those N events
\* as the batch and a new instance with an empty queue, and the receiver still
\* holds its N events afterwards.
C3_DrainEvents ==
    last.op = "drain_events" =>
        /\ ReturnedInstance
        /\ last.res # last.recv
        /\ last.batch = last.self.events
        /\ Res.events = <<>>
        /\ Recv.events = last.self.events
        /\ Len(Recv.events) = Len(last.batch)

C3_Witness ==
    /\ last.op = "drain_events"
    /\ ReturnedInstance
    /\ Len(last.batch) = 1
    /\ Len(Recv.events) = 1
    /\ Res.events = <<>>

C5_TimeTravel ==
    (last.op \in {"update", "archive", "unarchive"}
        /\ last.now.aware /\ Lt(last.now, last.self.updated_at)) =>
        /\ last.op \in {"update", "archive"}
              => last.outcome = "TimestampOrder" /\ last.res = 0
        /\ last.op = "unarchive" => ReturnedInstance

C5_Witness ==
    /\ last.op = "archive"
    /\ last.now.aware
    /\ Lt(last.now, last.self.updated_at)
    /\ last.outcome = "TimestampOrder"

\* C6: a zone-less timestamp given to the constructor (as created_at,
\* updated_at or archived_at), to create, update, archive or unarchive as now,
\* to add_event as the event's occurred_at, or to the construction of a base
\* event as occurred_at, makes the call fail with Timezone-Missing.
C6_ZoneLessRejected ==
    /\ (last.op \in {"create", "update", "archive", "unarchive", "BaseDomainEvent"}
           /\ ~last.now.aware)
          => last.outcome = "TimezoneMissing" /\ last.res = 0
    /\ (last.op = "construct"
           /\ \/ ~last.kw.created_at.aware
              \/ ~last.kw.updated_at.aware
              \/ (last.kw.archived_at # None /\ ~last.kw.archived_at.aware))
          => last.outcome = "TimezoneMissing" /\ last.res = 0
    /\ (last.op = "add_event" /\ DomainEvent(last.ev) /\ ~last.ev.occurred_at.aware)
          => last.outcome = "TimezoneMissing" /\ last.res = 0
    /\ (last.op = "BaseDomainEvent" /\ ~last.now.aware) => last.ev = NoEvent

C6_Witness ==
    /\ last.op = "construct"
    /\ last.kw.created_at.aware
    /\ last.kw.updated_at.aware
    /\ last.kw.archived_at = Naive(0)
    /\ last.outcome = "TimezoneMissing"
    /\ Len(heap) = 1

C8_Scenario ==
    /\ last.op = "drain_events"
    /\ ReturnedInstance
    /\ origin[last.recv].op = "add_event"
    /\ Parent(last.recv) # 0
    /\ origin[Parent(last.recv)].op = "create"
    /\ Len(last.self.events) = 1
    /\ last.self.events[1].occurred_at.t = heap[Parent(last.recv)].created_at.t + 1

\* C8 as claimed: in the scenario the drained instance has version 2,
\* updated_at = t0 + 1 and an empty queue, and the batch holds one event.
C8_AsClaimed ==
    C8_Scenario =>
        /\ Res.version = 2
        /\ Res.updated_at = last.self.events[1].occurred_at
        /\ Res.events = <<>>
        /\ Len(last.batch) = 1

\* C8 as amended: in the scenario the drained instance has version 1 (0 at
\* create, one increment for add_event, none for drain_events), updated_at =
\* t0 + 1 and an empty queue, and the batch holds exactly the one event.
C8_EndToEnd ==
    C8_Scenario =>
        /\ Res.version = 1
        /\ Res.updated_at = last.self.events[1].occurred_at
        /\ Res.updated_at.t = heap[Parent(last.recv)].created_at.t + 1
        /\ Res.events = <<>>
        /\ Len(last.batch) = 1
        /\ last.batch[1] = last.self.events[1]

C8_Witness ==
    /\ C8_Scenario
    /\ heap[Parent(last.recv)].created_at = Aware(0)
    /\ Res.updated_at = Aware(1)
    /\ Res.version = 1

\* C9: in every entity instance that exists, built directly or returned by
\* create, update, archive, unarchive, add_event or drain_events, updated_at
\* is not earlier than created_at.
C9_UpdatedNotBeforeCreated ==
    \A h \in Handles : ~Lt(heap[h].updated_at, heap[h].created_at)

C9_Witness ==
    /\ last.op = "unarchive"
    /\ ReturnedInstance
    /\ Lt(last.now, last.self.created_at)
    /\ Res.updated_at = Res.created_at

\* C10 as claimed: update, archive, unarchive and add_event reject a timestamp
\* earlier than the receiver's updated_at, so no instance they return has an
\* updated_at earlier than its receiver's.
C10_AsClaimed ==
    /\ (last.op \in Mutating /\ GivenTime.aware /\ Lt(GivenTime, last.self.updated_at))
          => last.outcome = "TimestampOrder"
    /\ \A h \in Handles :
          origin[h].op \in Mutating
             => ~Lt(heap[h].updated_at, heap[Parent(h)].updated_at)

\* C10 as amended: update and archive reject a timestamp earlier than the
\* receiver's updated_at, so along any chain of update and archive operations
\* updated_at never moves backward (unarchive and add_event make no such check).
C10_UpdateArchiveMonotone ==
    /\ (last.op \in {"update", "archive"}
           /\ last.now.aware /\ Lt(last.now, last.self.updated_at))
          => last.outcome = "TimestampOrder" /\ last.res = 0
    /\ \A h \in Handles :
          origin[h].op \in {"update", "archive"}
             => ~Lt(heap[h].updated_at, heap[Parent(h)].updated_at)

C10_Witness ==
    \E h \in Handles :
        /\ origin[h].op = "archive"
        /\ Parent(h) # 0 /\ origin[Parent(h)].op = "update"
        /\ Lt(heap[Parent(h)].updated_at, heap[h].updated_at)
        /\ Lt(heap[Parent(Parent(h))].updated_at, heap[Parent(h)].updated_at)

\* no call on the chain from the root to h was given an id to replace
RECURSIVE IdKept(_)
IdKept(h) == Parent(h) = 0 \/ ("id" \notin origin[h].keys /\ IdKept(Parent(h)))

\* C11 as claimed: every instance derived from an entity by update (with any
\* field replacements), archive, unarchive, add_event and drain_events has
\* the identifier the entity was created with.
C11_AsClaimed ==
    \A h \in Handles : heap[h].id = heap[Root(h)].id

\* C11 as amended: the identifier is the same in every instance derived by
\* any sequence of update (with replacements that do not name id), archive,
\* unarchive, add_event and drain_events; update(now, id = x) returns an
\* instance whose identifier is x.
C11_IdStable ==
    /\ \A h \in Handles : IdKept(h) => heap[h].id = heap[Root(h)].id
    /\ (last.op = "update" /\ ReturnedInstance /\ Has(last.kw, "id"))
          => Res.id = last.kw.id

C11_Witness ==
    \E h \in Handles :
        /\ origin[h].op = "drain_events"
        /\ Parent(h) # 0 /\ origin[Parent(h)].op = "update"
        /\ origin[Parent(h)].keys = {"name"}
        /\ heap[h].id = heap[Root(h)].id
        /\ Root(h) # Parent(h)

\* C12: a mutating operation that fails returns no instance, and the receiver
\* and every other instance that exists have all their fields as before.
C12_FailureChangesNothing ==
    (last.op \in Mutating /\ last.outcome # "ok") =>
        /\ last.outcome \in {"TimezoneMissing", "TimestampOrder", "TypeError"}
        /\ last.res = 0
        /\ heap = last.before
        /\ Recv = last.self

C12_Witness ==
    /\ last.op = "unarchive"
    /\ last.outcome = "TimezoneMissing"
    /\ Len(heap) = 2
    /\ heap = last.before

\* C13: drain_events() returns an instance that has the receiver's id,
\* version, created_at, updated_at, archived_at and name and an empty queue,
\* and changes no instance; peek_events() returns the queue, returns no
\* instance and changes nothing.
C13_DrainPeekFrame ==
    /\ last.op = "drain_events" =>
          /\ ReturnedInstance
          /\ Res = [last.self EXCEPT !.events = <<>>]
          /\ heap = Append(last.before, Res)
    /\ last.op = "peek_events" =>
          /\ last.batch = last.self.events
          /\ last.res = 0
          /\ heap = last.before
          /\ Recv = last.self

C13_Witness ==
    /\ last.op = "peek_events"
    /\ Len(last.batch) = 1
    /\ Recv.version = 1
    /\ heap = last.before

\* C14 as claimed: entities are equal, and hash equally, when they are of the
\* same kind and carry the same identifier, whatever their other fields;
\* entities of different kinds are never equal; and every instance derived
\* from e by update, archive, unarchive, add_event or drain_events equals e.
C14_AsClaimed ==
    /\ \A a, b \in Handles :
          /\ Eq(heap[a], heap[b])
                <=> (heap[a].kind = heap[b].kind /\ heap[a].id = heap[b].id)
          /\ Eq(heap[a], heap[b]) => HashKey(heap[a]) = HashKey(heap[b])
          /\ heap[a].kind # heap[b].kind => ~Eq(heap[a], heap[b])
    /\ \A h \in Handles : Eq(heap[h], heap[Root(h)])

\* C14 as amended: as claimed, with the derived instances being those derived
\* by update with replacements that do not name id, archive, unarchive,
\* add_event or drain_events; an update that replaces the id with another
\* returns an instance that is not equal to its receiver.
C14_EqualityIsIdentity ==
    /\ \A a, b \in Handles :
          /\ Eq(heap[a], heap[b])
                <=> (heap[a].kind = heap[b].kind /\ heap[a].id = heap[b].id)
          /\ Eq(heap[a], heap[b]) => HashKey(heap[a]) = HashKey(heap[b])
          /\ heap[a].kind # heap[b].kind => ~Eq(heap[a], heap[b])
    /\ \A h \in Handles :
          IdKept(h) => /\ Eq(heap[h], heap[Root(h)])
                       /\ HashKey(heap[h]) = HashKey(heap[Root(h)])
    /\ (last.op = "update" /\ ReturnedInstance /\ Has(last.kw, "id")
           /\ last.kw.id # last.self.id)
          => ~Eq(Res, Recv)

C14_Witness ==
    \E a, b, c \in Handles :
        /\ heap[a].kind = "Foo" /\ heap[b].kind = "Bar"
        /\ heap[a].id = heap[b].id
        /\ ~Eq(heap[a], heap[b])
        /\ Parent(c) = a /\ origin[c].op = "update" /\ origin[c].keys = {"name"}
        /\ heap[c].name # heap[a].name /\ heap[c].version # heap[a].version
        /\ Eq(heap[c], heap[a])

\* C15: for every entity e and zone-aware now that is not earlier than
\* e.updated_at, e.archive(now) returns a new instance with archived_at = now,
\* updated_at = now and version = e.version + 1 (also when e is archived
\* already), and e is as it was.
C15_ArchiveResult ==
    (last.op = "archive" /\ last.now.aware /\ ~Lt(last.now, last.self.updated_at)) =>
        /\ ReturnedInstance
        /\ last.res # last.recv
        /\ Res.archived_at = last.now
        /\ Res.updated_at = last.now
        /\ Res.version = last.self.version + 1
        /\ Recv = last.self

C15_Witness ==
    /\ last.op = "archive"
    /\ ReturnedInstance
    /\ Lt(last.self.updated_at, last.now)
    /\ last.self.archived_at = None
    /\ Res.archived_at = last.now

RECURSIVE QueueOwn(_)
QueueOwn(h) ==
    /\ "events" \notin origin[h].keys
    /\ Parent(h) = 0 \/ QueueOwn(Parent(h))

\* every event of the queue q satisfies the contract and has a zone
EventsAware(q) ==
    \A k \in DOMAIN q : DomainEvent(q[k]) /\ q[k].occurred_at.aware

\* C18 as claimed: in every entity instance that exists, created_at and
\* updated_at are zone-aware, archived_at is null or zone-aware, and every
\* event in the queue has a zone-aware occurred_at.
C18_AsClaimed ==
    \A h \in Handles :
        /\ heap[h].created_at.aware
        /\ heap[h].updated_at.aware
        /\ heap[h].archived_at = None \/ heap[h].archived_at.aware
        /\ EventsAware(heap[h].events)

\* C18 as amended: in every entity instance that exists, created_at and
\* updated_at are zone-aware and archived_at is null or zone-aware; every
\* event that add_event put into a queue has a zone-aware occurred_at, so the
\* queue of an instance holds zone-aware events only unless a caller gave the
\* constructor a queue of its own, which is stored unchecked.
C18_ZoneAwareEverywhere ==
    /\ \A h \in Handles :
          /\ heap[h].created_at.aware
          /\ heap[h].updated_at.aware
          /\ heap[h].archived_at = None \/ heap[h].archived_at.aware
          /\ QueueOwn(h) => EventsAware(heap[h].events)
    /\ (last.op = "add_event" /\ ReturnedInstance)
          => /\ DomainEvent(last.ev) /\ last.ev.occurred_at.aware
             /\ Res.events[Len(Res.events)] = last.ev
    /\ (last.op = "construct" /\ ReturnedInstance) => Res.events = last.kw.events

C18_Witness ==
    \E h \in Handles :
        /\ QueueOwn(h)
        /\ Len(heap[h].events) = 1
        /\ heap[h].events[1].occurred_at.aware
        /\ heap[h].archived_at # None /\ heap[h].archived_at.aware
        /\ origin[h].op = "add_event"
        /\ origin[Root(h)].op = "construct"

\* C19: when two successful mutating operations are applied to the same base
\* instance b, both results have version b.version + 1 and b is unchanged by
\* either: two divergent successors of one base have equal versions, one more
\* than the base's.
C19_DivergentSuccessors ==
    /\ \A g, h \in Handles :
          (g # h /\ Parent(g) # 0 /\ Parent(g) = Parent(h)
              /\ origin[g].op \in Mutating /\ origin[h].op \in Mutating) =>
             /\ heap[g].version = heap[Parent(g)].version + 1
             /\ heap[h].version = heap[Parent(g)].version + 1
             /\ heap[g].version = heap[h].version
    /\ (last.op \in Mutating /\ ReturnedInstance) =>
          /\ last.res # last.recv
          /\ Recv = last.self
          /\ \A k \in DOMAIN last.before : heap[k] = last.before[k]

C19_Witness ==
    \E g, h \in Handles :
        /\ Parent(g) = 1 /\ Parent(h) = 1
        /\ origin[g].op = "update" /\ origin[h].op = "archive"
        /\ last.res = h /\ last.self = heap[1]
        /\ heap[g].updated_at # heap[h].updated_at
        /\ heap[1].version = 0
        /\ heap[g].version = 1 /\ heap[h].version = 1

\* the string has no whitespace at either end
Trimmed(s) == s = <<>> \/ (s[1] # " " /\ s[Len(s)] # " ")

\* the string is whitespace only (or empty)
Blank(s) == \A k \in DOMAIN s : s[k] = " "

\* C20: a value object's construction normalizes before it validates, and
\* validation reads the normalized fields, not the caller's: a Name that is
\* valid only once trimmed is accepted and holds the trimmed value, a Name
\* that is empty or too long once trimmed (a whitespace-only one) is rejected
\* whatever it was before, and a rejected construction leaves no instance.
C20_NormalizeThenValidate ==
    built.outcome # "none" =>
        /\ built.seen = SetAttrs(built.arg, Normalize(built.arg))
        /\ built.arg.cls = "Name" =>
              /\ Trimmed(built.seen.value)
              /\ built.outcome = "ok"
                    <=> /\ ~Blank(built.arg.value)
                        /\ Len(Strip(built.arg.value)) <= MAX_NAME_LENGTH
              /\ Blank(built.arg.value)
                    => built.outcome = "ValueError" /\ built.msg = "Name empty."
        /\ built.arg.cls = "Slug" => built.outcome = "ok"
        /\ built.outcome = "ok" =>
              /\ built.res = Len(built.before) + 1
              /\ values = Append(built.before, built.seen)
        /\ built.outcome # "ok" =>
              /\ built.res = 0
              /\ values = built.before

\* a Name that is too long as given and valid once trimmed is accepted
C20_Witness ==
    /\ built.arg.cls = "Name"
    /\ Len(built.arg.value) > MAX_NAME_LENGTH
    /\ built.outcome = "ok"
    /\ Len(values[built.res].value) = MAX_NAME_LENGTH
    /\ Len(values) = 1

\* C21: a single-value object built from v has value and as_primitive() equal
\* to normalize_value(v); normalize_value (trimming) is idempotent, and
\* building again from as_primitive() of an instance succeeds and gives an
\* object equal to that instance.
C21_RoundTrip ==
    (built.arg.cls = "Name" /\ built.outcome = "ok") =>
        /\ values[built.res].value = NormalizeValue(built.arg, built.arg.value)
        /\ AsPrimitive(values[built.res]) = NormalizeValue(built.arg, built.arg.value)
        /\ NormalizeValue(built.arg, AsPrimitive(values[built.res]))
              = AsPrimitive(values[built.res])
        /\ \A h \in DOMAIN built.before :
              (values[h].cls = "Name" /\ built.arg.value = AsPrimitive(values[h]))
                 => /\ ValueEq(values[built.res], values[h])
                    /\ built.res # h

\* a Name of one character, and a second one built from as_primitive() of
\* the first
C21_Witness ==
    /\ built.arg.cls = "Name" /\ built.outcome = "ok"
    /\ built.res = 2
    /\ values[1].cls = "Name"
    /\ built.arg.value = AsPrimitive(values[1])
    /\ Len(values[1].value) = 1
    /\ ValueEq(values[2], values[1])

\* C22: payload() of a base event holds every field of the event but id and
\* occurred_at, with the field's value, and neither of those two keys;
\* to_outbox_record() has exactly the keys id, type, occurred_at and payload,
\* its payload is payload() and its type is event_type; neither changes the
\* event.
C22_PayloadAndRecord ==
    /\ asked.op = "payload" =>
          /\ DOMAIN asked.payload = Fields(asked.self.cls) \ {"id", "occurred_at"}
          /\ \A k \in DOMAIN asked.payload : asked.payload[k] = asked.self.f[k]
          /\ "id" \notin DOMAIN asked.payload
          /\ "occurred_at" \notin DOMAIN asked.payload
          /\ events = asked.before /\ events[1] = asked.self
    /\ asked.op = "to_outbox_record" =>
          /\ DOMAIN asked.record = {"id", "type", "occurred_at", "payload"}
          /\ asked.record.payload = Payload(asked.self)
          /\ asked.record.type = EventType(asked.self)
          /\ asked.record.id = Str(asked.self.f["id"])
          /\ asked.record.occurred_at = IsoFormat(asked.self.f["occurred_at"])
          /\ events = asked.before /\ events[1] = asked.self

C22_Witness ==
    /\ asked.op = "to_outbox_record"
    /\ asked.self.cls.name = "MyEvt"
    /\ asked.self.f["version"] = PyInt(1)
    /\ DOMAIN asked.record.payload
          = {"aggregate_id", "aggregate_type", "version", "TYPE", "score_id"}
    /\ asked.record.type = "score.created"

\* C23: event_type is the tag the event's class declares, whenever it
\* declares one and whatever the tag is, and otherwise the module path, a
\* dot and the name of the class.
C23_AsClaimed ==
    asked.op = "event_type" =>
        asked.type = IF asked.self.cls.declares
                     THEN asked.self.cls.TYPE
                     ELSE asked.self.cls.module \o "." \o asked.self.cls.name

\* C24: add_event checks that its argument satisfies the DomainEvent
\* contract (it has an id and an occurred_at): an argument that does not is
\* rejected with TimestampMustBeTimezoneAwareError naming event.occurred_at,
\* no instance is returned, and the receiver has its queue, version and
\* updated_at as before.
C24_ContractChecked ==
    (last.op = "add_event" /\ ~({"id", "occurred_at"} \subseteq last.ev.attrs)) =>
        /\ last.outcome = "TimezoneMissing"
        /\ last.field = "event.occurred_at"
        /\ last.res = 0
        /\ heap = last.before
        /\ Recv.events = last.self.events
        /\ Recv.version = last.self.version
        /\ Recv.updated_at = last.self.updated_at

C24_Witness ==
    /\ last.op = "add_event"
    /\ last.ev = NoIdEvent
    /\ last.outcome = "TimezoneMissing"
    /\ Len(Recv.events) = 1
    /\ Recv.version = 1

\* the events given to add_event on the chain from the root to h, in order
RECURSIVE Added(_)
Added(h) ==
    IF Parent(h) = 0 THEN <<>>
    ELSE Added(Parent(h))
           \o (IF origin[h].op = "add_event" THEN <<origin[h].ev>> ELSE <<>>)

\* the batches drain_events returned on the chain from the root to h, one
\* after the other
RECURSIVE Drained(_)
Drained(h) ==
    IF Parent(h) = 0 THEN <<>>
    ELSE Drained(Parent(h))
           \o (IF origin[h].op = "drain_events" THEN origin[h].batch ELSE <<>>)

C26_Frame ==
    /\ (ReturnedInstance
           /\ (last.op \in {"archive", "unarchive"}
                  \/ (last.op = "update" /\ last.kw.keys \subseteq SubclassFields))) =>
          /\ Res.events = last.self.events
          /\ Res.id = last.self.id
          /\ Res.created_at = last.self.created_at
          /\ Res.kind = last.self.kind
    /\ (ReturnedInstance
           /\ (last.op = "add_event"
                  \/ (last.op = "update" /\ last.kw.keys \subseteq SubclassFields))) =>
          /\ Res.archived_at = last.self.archived_at
          /\ Res.id = last.self.id
          /\ Res.created_at = last.self.created_at

C26_Witness ==
    /\ last.op = "update" /\ last.kw.keys = {"name"}
    /\ ReturnedInstance
    /\ last.self.archived_at # None
    /\ Res.archived_at = last.self.archived_at
    /\ Res.name # last.self.name
    /\ origin[Root(last.res)].op = "create"

\* C27: with a zone-less now, update and archive fail with
\* TimestampMustBeTimezoneAwareError and never with TimestampOrderError: the
\* zone is checked before, and instead of, the comparison with updated_at.
C27_ZoneCheckedFirst ==
    (last.op \in {"update", "archive"} /\ ~last.now.aware) =>
        /\ last.outcome = "TimezoneMissing"
        /\ last.field = "now"
        /\ last.outcome # "TimestampOrder"
        /\ last.res = 0
        /\ heap = last.before

\* a zone-less now whose instant is earlier than the receiver's updated_at
C27_Witness ==
    /\ last.op = "archive"
    /\ ~last.now.aware
    /\ Lt(last.now, last.self.updated_at)
    /\ last.outcome = "TimezoneMissing"

\* C28: archive and unarchive do not look at the archival state: archive on
\* an archived entity (with a now it accepts) succeeds, puts the new now in
\* archived_at and increments version; unarchive on an entity that is not
\* archived succeeds, leaves archived_at null, increments version and sets
\* updated_at (to now, or to created_at when now is earlier).
C28_NoArchivalPrecondition ==
    /\ (last.op = "archive" /\ last.self.archived_at # None
           /\ last.now.aware /\ ~Lt(last.now, last.self.updated_at)) =>
          /\ ReturnedInstance
          /\ Res.archived_at = last.now
          /\ Res.version = last.self.version + 1
    /\ (last.op = "unarchive" /\ last.self.archived_at = None /\ last.now.aware) =>
          /\ ReturnedInstance
          /\ Res.archived_at = None
          /\ Res.version = last.self.version + 1
          /\ Res.updated_at = IF Lt(last.now, last.self.created_at)
                              THEN last.self.created_at ELSE last.now

C28_Witness ==
    /\ last.op = "archive"
    /\ ReturnedInstance
    /\ last.self.archived_at # None
    /\ Lt(last.self.archived_at, last.now)
    /\ Res.archived_at = last.now
    /\ Res.version = 2

\* every call on the chain from the root to h that was given keyword
\* arguments was given subclass fields only
RECURSIVE SubclassOnly(_)
SubclassOnly(h) ==
    Parent(h) = 0 \/ (origin[h].keys \subseteq SubclassFields /\ SubclassOnly(Parent(h)))

\* C29 as claimed: in every entity reached from create by update (of subclass
\* fields), archive, unarchive, add_event and drain_events, an archived_at
\* that is not null is not later than updated_at and not earlier than
\* created_at.
C29_AsClaimed ==
    \A h \in Handles :
        (origin[Root(h)].op = "create" /\ SubclassOnly(h)
            /\ heap[h].archived_at # None) =>
            /\ ~Lt(heap[h].updated_at, heap[h].archived_at)
            /\ ~Lt(heap[h].archived_at, heap[h].created_at)

\* no add_event on the chain since the archive that h's archived_at is from
RECURSIVE NoEventSinceArchive(_)
NoEventSinceArchive(h) ==
    \/ origin[h].op = "archive"
    \/ /\ Parent(h) # 0
       /\ origin[h].op # "add_event"
       /\ NoEventSinceArchive(Parent(h))

\* C29 as amended: in every such entity an archived_at that is not null is
\* not earlier than created_at; it is not later than updated_at as long as no
\* add_event was applied since the entity was archived: add_event sets
\* updated_at to the event's time, which may be earlier than archived_at.
C29_ArchivedBetween ==
    \A h \in Handles :
        (origin[Root(h)].op = "create" /\ SubclassOnly(h)
            /\ heap[h].archived_at # None) =>
            /\ ~Lt(heap[h].archived_at, heap[h].created_at)
            /\ NoEventSinceArchive(h) => ~Lt(heap[h].updated_at, heap[h].archived_at)

C29_Witness ==
    \E g, h \in Handles :
        /\ origin[Root(h)].op = "create"
        /\ Parent(h) = g /\ Parent(g) = Root(h)
        /\ origin[g].op = "archive" /\ origin[h].op = "update"
        /\ SubclassOnly(h)
        /\ Lt(heap[g].created_at, heap[g].archived_at)
        /\ Lt(heap[h].archived_at, heap[h].updated_at)

====
